---- MODULE Spec2Model ----
(***************************************************************************)
(* Verification model of the RTDE teleoperation scripts:                   *)
(*   RTDE_Scripts/keyboard_control_loop.py  (clamp_pose, plan_segments,    *)
(*                                           run_control_loop)             *)
(*   RTDE_Scripts/wacom_control_loop.py     (map_tablet_to_robot,          *)
(*                                           run_wacom_loop)               *)
(*                                                                         *)
(* Python floats are modelled as binary floating point numbers with        *)
(* round-to-nearest-even, a significand of SigBits bits and a smallest     *)
(* quantum of 2^-FracBits.  A float is held as the integer number of       *)
(* quanta it is worth, so 1.0 is Pow2(FracBits).  Every arithmetic         *)
(* operation of the source rounds its exact result to the format, as the   *)
(* IEEE-754 operations of the interpreter do (there with 53 bits).         *)
(***************************************************************************)
EXTENDS Integers, Sequences, FiniteSets, TLC

\* ------------------------------------------------------------------------
\* Bounds of the model
\* ------------------------------------------------------------------------
SigBits == 11
FracBits == 12

\* Key presses read in one run of the keyboard loop.
MaxKeys == 2
\* Auto-tilt steps applied in one run of the keyboard loop.
MaxTilts == 1
\* Events the tablet delivers in one run of a tablet reader.
MaxEvents == 3
\* start() calls on one tablet reader.
MaxStarts == 2
\* Packets the queue of the wintab reader holds (maxsize, 50 in the source).
MaxQueue == 2

VARIABLES
    pl,     \* a call of a pure function (plan_segments, the singularity scale):
            \* its arguments and its result
    pc,     \* where run_control_loop, run_wacom_loop, or the caller of a
            \* tablet reader stands
    kb,     \* the local variables of run_control_loop or of run_wacom_loop, or
            \* the fields of a tablet reader
    rb,     \* the robot link: connection state and the registers the robot holds
    obs,    \* what the last pass through the loop body did on the link
    attempts, \* receive attempts made so far by the initial polling (its loop
            \* counter), or start() calls made on a tablet reader
    keys,   \* key presses read so far, or events the tablet has delivered
    tilts,  \* auto-tilt steps applied so far
    age     \* now - last_send_time, in units of 0.01 s, capped at the rate limit

vars == <<pl, pc, kb, rb, obs, attempts, keys, tilts, age>>

\* ------------------------------------------------------------------------
\* Floating point arithmetic
\* ------------------------------------------------------------------------
RECURSIVE Pow2(_)
Pow2(k) == IF k <= 0 THEN 1 ELSE 2 * Pow2(k - 1)

One == Pow2(FracBits)

\* Floats below SigLim quanta are whole numbers of quanta.
SigLim == Pow2(SigBits)

\* The spacing of the floats around m >= 0 quanta: the least power of two q
\* (from q on) with m < 2^SigBits * q.
RECURSIVE Quantum(_, _)
Quantum(m, q) == IF m < SigLim * q THEN q ELSE Quantum(m, 2 * q)

Abs(v) == IF v < 0 THEN 0 - v ELSE v

Sgn(v) == IF v < 0 THEN 0 - 1 ELSE 1

Max2(a, b) == IF a >= b THEN a ELSE b

Min2(a, b) == IF a <= b THEN a ELSE b

\* f quanta of size q, one more when the doubled remainder r2 of the division
\* by d2 is past the half, or at the half with f odd (ties to even).
RoundUp(f, r2, d2, q) ==
    (f + (IF r2 > d2 \/ (r2 = d2 /\ f % 2 = 1) THEN 1 ELSE 0)) * q

\* num/d2 as f quanta of size q and a remainder.
RoundAt(num, d2, q, f) == RoundUp(f, 2 * (num - f * d2), d2, q)

\* The float nearest to num/den quanta (num >= 0, den > 0), ties to even, at
\* the spacing q of the floats around num/den.
RNq(num, den, q) == RoundAt(num, den * q, q, num \div (den * q))

RN(num, den) ==
    IF den = 1 /\ num < SigLim
    THEN num
    ELSE RNq(num, den, Quantum(num \div den, 1))

\* A signed literal num/den of the source, as a float.
Lit(num, den) == Sgn(num) * RN(Abs(num) * One, den)

\* A literal given in 1/100000: k * 2^FracBits / 100000 without overflow.
Lit5(k) == Sgn(k) * RN(Abs(k) * Pow2(FracBits - 5), 3125)

IntF(i) == Sgn(i) * RN(Abs(i) * One, 1)

FAdd(a, b) == Sgn(a + b) * RN(Abs(a + b), 1)

FSub(a, b) == Sgn(a - b) * RN(Abs(a - b), 1)

FMul(a, b) == Sgn(a) * Sgn(b) * RN(Abs(a) * Abs(b), One)

FDiv(a, b) == Sgn(a) * Sgn(b) * RN(Abs(a) * One, Abs(b))

\* int(math.ceil(v)) of a float v.
CeilInt(v) == 0 - ((0 - v) \div One)

\* ------------------------------------------------------------------------
\* Configuration (keyboard_control_loop.py)
\* ------------------------------------------------------------------------
POS_STEP_DEFAULT == Lit(10, 1000)
ROT_STEP_DEFAULT == Lit(5, 100)
WRIST2_WARN == Lit(25, 100)
WRIST2_LIMIT == Lit(10, 100)
TILT_STEP == Lit(7, 100)
MIN_SEG == Lit(2, 1000)
HOME_POSE == <<Lit5(0 - 14397), Lit5(0 - 43562), Lit5(20203),
               Lit(1, 1000), Lit(0 - 3116, 1000), Lit(0 - 40, 1000)>>
XY_LIM == Lit(15, 10)
Z_MIN == Lit(0 - 2, 10)
Z_MAX == Lit(15, 10)
ROT_LIM == Lit5(628319)
DEF_POS_SEG == Lit(5, 1000)
DEF_ROT_SEG == Lit(3, 100)
MIN_ROT_SEG == Lit(2, 100)
SCALE_LIMIT == Lit(1, 10)
SCALE_FLOOR == Lit(2, 10)
STEP_FACTOR == Lit(125, 100)
QUICK_Z == Lit(5, 100)
HOVER_Z == Lit(10, 100)
THREE == IntF(3)

\* ------------------------------------------------------------------------
\* clamp_pose
\* ------------------------------------------------------------------------
\* A rotation rule that halves an angle beyond the bound.
ClampRot_Halve(r) == IF Abs(r) > ROT_LIM THEN r \div 2 ELSE r

ClampRot(r) == IF Abs(r) > ROT_LIM THEN 0 ELSE r

clamp_pose(p) ==
    << Max2(0 - XY_LIM, Min2(XY_LIM, p[1])),
       Max2(0 - XY_LIM, Min2(XY_LIM, p[2])),
       Max2(Z_MIN, Min2(Z_MAX, p[3])),
       ClampRot(p[4]), ClampRot(p[5]), ClampRot(p[6]) >>

\* ------------------------------------------------------------------------
\* plan_segments
\* ------------------------------------------------------------------------
Max3(a, b, c) == Max2(a, Max2(b, c))

\* The step count of a planner without the floor of one step.
StepCount_NoFloor(d1, d2, d3, max_step) ==
    CeilInt(FDiv(Max3(Abs(d1), Abs(d2), Abs(d3)), max_step))

\* steps_pos / steps_rot: max(1, int(math.ceil(max(|d|) / max_step)))
StepCount(d1, d2, d3, max_step) ==
    Max2(1, CeilInt(FDiv(Max3(Abs(d1), Abs(d2), Abs(d3)), max_step)))

\* t = i / float(n) for integers 0 < i <= n (both exact as floats)
Frac(i, n) == RN(i * One, n)

\* One coordinate of a waypoint: s + d * t (s + 0.0 * t is s).
Interp(s, d, t) == IF d = 0 THEN s ELSE FAdd(s, FMul(d, t))

\* The waypoint at t of the way from start along d.
Waypoint(start, d, t) == [k \in 1..6 |-> Interp(start[k], d[k], t)]

\* dp and dr: goal - start, component by component.
Delta(start, goal) == [k \in 1..6 |-> FSub(goal[k], start[k])]

\* segs, clamped: waypoints 1..n of n from start along d.
Segments(start, d, n) ==
    [i \in 1..n |-> clamp_pose(Waypoint(start, d, Frac(i, n)))]

\* n = max(steps_pos, steps_rot)
Steps(d, max_pos_step, max_rot_step) ==
    Max2(StepCount(d[1], d[2], d[3], max_pos_step),
         StepCount(d[4], d[5], d[6], max_rot_step))

PlanAlong(start, d, max_pos_step, max_rot_step) ==
    Segments(start, d, Steps(d, max_pos_step, max_rot_step))

plan_segments(start, goal, max_pos_step, max_rot_step) ==
    PlanAlong(start, Delta(start, goal), max_pos_step, max_rot_step)

\* ------------------------------------------------------------------------
\* run_control_loop: the per-tick computation
\* ------------------------------------------------------------------------
NoPose == <<>>

\* send_rate_limit = 0.02 s, in units of 0.01 s
SEND_RATE_LIMIT == 2
\* range(100): receive attempts of the initial polling
POLL_ATTEMPTS == 100

\* math.pi
PI == RN(355 * One, 113)

NoKey == "none"
MoveKeys == {"RIGHT", "LEFT", "UP", "DOWN", "PPAGE", "NPAGE",
             "w", "s", "a", "d", "q", "e"}
DirtyKeys == MoveKeys \cup {"b", "r", "f", "h", "g"}

Bump(p, k, delta) == [p EXCEPT ![k] = FAdd(p[k], delta)]

\* The pose a key asks for, before clamping.
KeyPose(key, p, pos_step_eff, rot_step_eff) ==
    CASE key = "RIGHT" -> Bump(p, 1, pos_step_eff)
      [] key = "LEFT"  -> Bump(p, 1, 0 - pos_step_eff)
      [] key = "UP"    -> Bump(p, 2, pos_step_eff)
      [] key = "DOWN"  -> Bump(p, 2, 0 - pos_step_eff)
      [] key = "PPAGE" -> Bump(p, 3, pos_step_eff)
      [] key = "NPAGE" -> Bump(p, 3, 0 - pos_step_eff)
      [] key = "w"     -> Bump(p, 4, rot_step_eff)
      [] key = "s"     -> Bump(p, 4, 0 - rot_step_eff)
      [] key = "a"     -> Bump(p, 5, rot_step_eff)
      [] key = "d"     -> Bump(p, 5, 0 - rot_step_eff)
      [] key = "q"     -> Bump(p, 6, rot_step_eff)
      [] key = "e"     -> Bump(p, 6, 0 - rot_step_eff)
      [] key = "b"     -> Bump(p, 6, PI)
      [] key = "r"     -> Bump(p, 3, QUICK_Z)
      [] key = "f"     -> Bump(p, 3, 0 - QUICK_Z)
      [] key = "h"     -> Bump(p, 3, HOVER_Z)
      [] key = "g"     -> HOME_POSE
      [] OTHER         -> p

\* base_pos_step / base_rot_step after the key.
KeyBase(key, base) ==
    CASE key = "+" -> FMul(base, STEP_FACTOR)
      [] key = "-" -> FDiv(base, STEP_FACTOR)
      [] OTHER     -> base

\* A key handling that steps by the base step sizes, the scale left out.
AfterKey_UnscaledStep(s, key) ==
    [s EXCEPT
        !.desired = IF key \in DirtyKeys
                    THEN clamp_pose(KeyPose(key, s.desired,
                                            s.base_pos_step, s.base_rot_step))
                    ELSE @,
        !.base_pos_step = KeyBase(key, @),
        !.base_rot_step = KeyBase(key, @),
        !.sync_request = (key = "c") \/ @]

\* A key handling whose chain of branches ends in a request to sync.
AfterKey_OtherKeySyncs(s, key) ==
    [s EXCEPT
        !.desired = IF key \in DirtyKeys
                    THEN clamp_pose(KeyPose(key, s.desired,
                                            FMul(s.base_pos_step, s.last_scale),
                                            FMul(s.base_rot_step, s.last_scale)))
                    ELSE @,
        !.base_pos_step = KeyBase(key, @),
        !.base_rot_step = KeyBase(key, @),
        !.sync_request = (key \notin DirtyKeys \cup {"+", "-", NoKey}) \/ @]

\* Key handling and `if dirty: desired = clamp_pose(...)`.
AfterKey(s, key) ==
    [s EXCEPT
        !.desired = IF key \in DirtyKeys
                    THEN clamp_pose(KeyPose(key, s.desired,
                                            FMul(s.base_pos_step, s.last_scale),
                                            FMul(s.base_rot_step, s.last_scale)))
                    ELSE @,
        !.base_pos_step = KeyBase(key, @),
        !.base_rot_step = KeyBase(key, @),
        !.sync_request = (key = "c") \/ @]

\* A sync that keeps the queued waypoints.
AfterSync_KeepQueue(s, snap) ==
    IF s.sync_request /\ snap.tcp # NoPose
    THEN [s EXCEPT !.desired = clamp_pose(snap.tcp),
                   !.current_cmd = clamp_pose(snap.tcp),
                   !.sync_request = FALSE]
    ELSE s

\* Sync of the commanded pose to the current TCP pose.
AfterSync(s, snap) ==
    IF s.sync_request /\ snap.tcp # NoPose
    THEN [s EXCEPT !.desired = clamp_pose(snap.tcp),
                   !.current_cmd = clamp_pose(snap.tcp),
                   !.segment_queue = <<>>,
                   !.pending_send = FALSE,
                   !.sync_request = FALSE]
    ELSE s

\* The scale of a guard whose ramp has no floor.
SingScale_NoFloor(snap) ==
    IF snap.hasq5 /\ Abs(snap.q5) < WRIST2_WARN
    THEN IF Abs(snap.q5) <= WRIST2_LIMIT
         THEN SCALE_LIMIT
         ELSE FDiv(FSub(Abs(snap.q5), WRIST2_LIMIT),
                   FSub(WRIST2_WARN, WRIST2_LIMIT))
    ELSE One

\* The scale of a guard whose lowest value starts strictly below the limit.
SingScale_StrictLimit(snap) ==
    IF snap.hasq5 /\ Abs(snap.q5) < WRIST2_WARN
    THEN IF Abs(snap.q5) < WRIST2_LIMIT
         THEN SCALE_LIMIT
         ELSE Max2(SCALE_FLOOR, FDiv(FSub(Abs(snap.q5), WRIST2_LIMIT),
                                    FSub(WRIST2_WARN, WRIST2_LIMIT)))
    ELSE One

\* Singularity scale of a snapshot.
SingScale(snap) ==
    IF snap.hasq5 /\ Abs(snap.q5) < WRIST2_WARN
    THEN IF Abs(snap.q5) <= WRIST2_LIMIT
         THEN SCALE_LIMIT
         ELSE Max2(SCALE_FLOOR, FDiv(FSub(Abs(snap.q5), WRIST2_LIMIT),
                                    FSub(WRIST2_WARN, WRIST2_LIMIT)))
    ELSE One

PosSeg_NoFloor(scale) == FMul(DEF_POS_SEG, scale)

PosSeg(scale) == Max2(MIN_SEG, FMul(DEF_POS_SEG, scale))

RotSeg(scale) == Max2(MIN_ROT_SEG, FMul(DEF_ROT_SEG, scale))

\* `if need_replan:` with need_replan as set by this tick's key.
AfterReplan(s, need_replan, scale) ==
    IF need_replan
    THEN [s EXCEPT !.segment_queue = plan_segments(s.current_cmd, s.desired,
                                                   PosSeg(scale), RotSeg(scale)),
                   !.pending_send = TRUE]
    ELSE s

\* `if segment_queue: pending_send = True`
AfterQueueCheck(s) ==
    IF s.segment_queue # <<>> THEN [s EXCEPT !.pending_send = TRUE] ELSE s

\* The condition under which the auto-tilt is applied.
TiltApplies(s, snap) ==
    /\ s.pending_send
    /\ s.segment_queue # <<>>
    /\ snap.hasq5
    /\ Abs(snap.q5) <= WRIST2_LIMIT
    /\ LET peek == Head(s.segment_queue)
           dx == FSub(peek[1], s.current_cmd[1])
           dy == FSub(peek[2], s.current_cmd[2])
           dz == FSub(peek[3], s.current_cmd[3])
       IN  FAdd(Abs(dx), Abs(dy)) > FMul(THREE, Abs(dz))

\* A tilt that takes the tilted pose for commanded at once.
Tilted_MovesCmd(s, tilted, scale) ==
    [s EXCEPT !.desired = tilted,
              !.current_cmd = tilted,
              !.segment_queue = plan_segments(s.current_cmd, tilted,
                                              PosSeg(scale), RotSeg(scale))]

\* desired and segment_queue after the tilt to the pose tilted.
Tilted(s, tilted, scale) ==
    [s EXCEPT !.desired = tilted,
              !.segment_queue = plan_segments(s.current_cmd, tilted,
                                              PosSeg(scale), RotSeg(scale))]

AfterTilt(s, snap, scale) ==
    IF TiltApplies(s, snap)
    THEN Tilted(s, clamp_pose(Bump(s.desired, 5,
                       IF snap.q5 >= 0 THEN TILT_STEP ELSE 0 - TILT_STEP)), scale)
    ELSE s

\* ready = getattr(state, "output_int_register_0", 1) == 1
Ready(snap) == IF snap.hasreg THEN snap.reg = 1 ELSE TRUE

\* The gate of a loop that ignores the handshake register.
SendGate_NoHandshake(pending, ready, elapsed) ==
    pending /\ elapsed >= SEND_RATE_LIMIT

\* `if pending_send and ready and (now - last_send_time) >= send_rate_limit`
SendGate(pending, ready, elapsed) ==
    pending /\ ready /\ elapsed >= SEND_RATE_LIMIT

\* The choice of a loop that always sends the goal and skips the queue.
NextPose_Desired(s) == s.desired

\* The choice of a loop that takes the waypoints from the end of the queue.
NextPose_Last(s) ==
    IF s.segment_queue # <<>>
    THEN s.segment_queue[Len(s.segment_queue)] ELSE s.desired

\* next_pose = segment_queue.pop(0) if segment_queue else desired
NextPose(s) ==
    IF s.segment_queue # <<>> THEN Head(s.segment_queue) ELSE s.desired

\* The send branch: locals after the pose and the watchdog went out.
AfterSend(s) ==
    LET rest == IF s.segment_queue # <<>> THEN Tail(s.segment_queue) ELSE <<>>
    IN  [s EXCEPT !.segment_queue = rest,
                  !.current_cmd = NextPose(s),
                  !.watchdog = 1,
                  !.pending_send = (rest # <<>>),
                  !.move_completed = FALSE]

\* Track move completion.
AfterCompletion(s, snap) ==
    IF ~s.move_completed /\ (IF snap.hasreg THEN snap.reg = 0 ELSE TRUE)
    THEN [s EXCEPT !.move_completed = TRUE, !.watchdog = 0]
    ELSE s

\* last_scale = scale
SetScale(s, scale) == [s EXCEPT !.last_scale = scale]

\* The locals before the auto-tilt of a tick that got a snapshot.
BeforeTilt(s, key, snap, scale) ==
    AfterQueueCheck(AfterReplan(SetScale(AfterSync(AfterKey(s, key), snap), scale),
                                key \in DirtyKeys, scale))

\* ------------------------------------------------------------------------
\* run_control_loop: state, inputs and actions
\* ------------------------------------------------------------------------
\* The locals of run_control_loop on entry to the loop, desired being d.
KbLocals(d) ==
    [desired |-> d, current_cmd |-> d, segment_queue |-> <<>>,
     pending_send |-> TRUE, move_completed |-> TRUE, sync_request |-> FALSE,
     base_pos_step |-> POS_STEP_DEFAULT, base_rot_step |-> ROT_STEP_DEFAULT,
     last_scale |-> One, watchdog |-> 0]

\* The link before connect(): nothing written, the robot's registers at 0.
RbInit == [link |-> "none", setp |-> NoPose, wd |-> 0, wdSent |-> FALSE]

\* What the last pass through the loop body did:
\*   kind      how the pass ended
\*   sent      the pose written to the link (NoPose: none)
\*   wdWrites  the number of watchdog writes
\*   due       a snapshot came, it passed for ready and the rate limit was over
\*   pending, head   (due) pending_send and the head of the queue at the gate
\*   reg, elapsed    (a pose was sent) output_int_register_0 of the snapshot
\*             ("absent": the snapshot has none), whether the rate limit was over
\*   key       the key read_key() returned
\*   synctcp   the TCP pose a sync was applied to (NoPose: no sync applied)
\*   synced    a sync was applied after the pose send before this pass
\*   tilt      the auto-tilt applied (<<>>: none): desired and current_cmd
\*             before it, current_cmd after it, and q5 of the snapshot
\*   live      (the loop is entered) the TCP pose the robot supplied during
\*             the initialisation (NoPose: none)
\*   ran       (the function was left through finally) the release steps run
\*   raised    (the same) the release step whose exception left the function
ObsNone ==
    [kind |-> "none", sent |-> NoPose, wdWrites |-> 0, due |-> FALSE,
     pending |-> FALSE, head |-> NoPose, reg |-> "na", elapsed |-> FALSE,
     key |-> NoKey, synctcp |-> NoPose, synced |-> FALSE, tilt |-> <<>>,
     live |-> NoPose, ran |-> {}, raised |-> "none"]

\* Whether a sync was applied after the last pose send, as the pass before
\* left it.
SyncedBefore == IF obs.sent # NoPose THEN FALSE ELSE obs.synced

\* What an auto-tilt did: b the locals before it, g the locals after it.
TiltRec(b, g, snap) ==
    [from |-> b.desired, cmdFrom |-> b.current_cmd, cmdTo |-> g.current_cmd,
     q5 |-> snap.q5]

RegSeen(snap) ==
    IF ~snap.hasreg THEN "absent" ELSE IF snap.reg = 1 THEN "one" ELSE "other"

\* TCP poses the robot reports: one inside the clamp box, one below its floor.
TcpA == <<Lit(3, 10), Lit(0 - 4, 10), Lit(0 - 18, 100), 0, Lit(0 - 3116, 1000), 0>>
TcpB == <<Lit(3, 10), Lit(0 - 4, 10), Lit(0 - 3, 10), 0, Lit(0 - 3116, 1000), 0>>
TcpPoses == {TcpA, TcpB}

\* Wrist angles q5 the robot reports (hasq5 FALSE: no joint vector).
Q5s == {<<FALSE, 0>>, <<TRUE, Lit(5, 100)>>}

\* output_int_register_0 the robot reports (hasreg FALSE: not in the recipe).
Regs == {<<TRUE, 0>>, <<TRUE, 1>>, <<FALSE, 0>>}

\* The snapshots receive() may return.  The TCP pose of a snapshot is read
\* only while a sync is requested, so it is left out otherwise.
Snaps(withTcp) ==
    {[tcp |-> t, hasq5 |-> q[1], q5 |-> q[2], hasreg |-> r[1], reg |-> r[2]] :
        t \in (IF withTcp THEN TcpPoses \cup {NoPose} ELSE {NoPose}),
        q \in Q5s,
        r \in Regs}

\* The keys the operator of the model presses: a step along x, sync, and a
\* key no branch of the key handling names.
KeysPressed == {"RIGHT", "c", "x"}

\* What read_key() may return (NoKey is -1); ESC has its own action.
KeyInputs == IF keys < MaxKeys THEN KeysPressed \cup {NoKey} ELSE {NoKey}

\* Time passed since the previous pass, in units of 0.01 s; past the rate
\* limit the amount makes no difference.
Dts == IF age + 1 >= SEND_RATE_LIMIT THEN {1} ELSE {1, 2}

InitKbd ==
    /\ pl = [pc |-> "idle"]
    /\ pc = "start"
    /\ kb = KbLocals(NoPose)
    /\ rb = RbInit
    /\ obs = ObsNone
    /\ attempts = 0 /\ keys = 0 /\ tilts = 0
    /\ age = SEND_RATE_LIMIT

Frame == UNCHANGED <<pl, attempts, keys, tilts, age>>

\* con.connect() ... send_input_setup() succeed.
Connect ==
    /\ pc = "start"
    /\ pc' = "setup"
    /\ rb' = [rb EXCEPT !.link = "open"]
    /\ UNCHANGED <<kb, obs>> /\ Frame

\* con.connect() raises.
ConnectFails ==
    /\ pc = "start"
    /\ pc' = "failed"
    /\ UNCHANGED <<kb, rb, obs>> /\ Frame

\* get_controller_version() or a send_*_setup() raises after connect().
SetupFails ==
    /\ pc = "setup"
    /\ pc' = "raised"
    /\ UNCHANGED <<kb, rb, obs>> /\ Frame

\* send_start() returns False: disconnect and SystemExit.
StartRejected ==
    /\ pc = "setup"
    /\ pc' = "exited"
    /\ rb' = [rb EXCEPT !.link = "closed"]
    /\ UNCHANGED <<kb, obs>> /\ Frame

StartOk ==
    /\ pc = "setup"
    /\ pc' = "polling"
    /\ UNCHANGED <<kb, rb, obs>> /\ Frame

\* One receive() of the initial polling that brings a TCP pose.
PollGotPose ==
    /\ pc = "polling" /\ attempts < POLL_ATTEMPTS
    /\ \E t \in TcpPoses :
          /\ kb' = KbLocals(t)
          /\ obs' = [ObsNone EXCEPT !.kind = "init", !.live = t]
    /\ pc' = "loop"
    /\ attempts' = 0
    /\ UNCHANGED <<pl, rb, keys, tilts, age>>

\* One receive() of the initial polling that brings none.
PollNothing ==
    /\ pc = "polling" /\ attempts < POLL_ATTEMPTS
    /\ attempts' = attempts + 1
    /\ UNCHANGED <<pl, pc, kb, rb, obs, keys, tilts, age>>

\* The polling is over (or the recipe has no actual_TCP_pose): HOME_POSE.
PollFallback ==
    /\ pc = "polling" /\ attempts \in {0, POLL_ATTEMPTS}
    /\ kb' = KbLocals(HOME_POSE)
    /\ obs' = [ObsNone EXCEPT !.kind = "init"]
    /\ pc' = "loop"
    /\ attempts' = 0
    /\ UNCHANGED <<pl, rb, keys, tilts, age>>

\* receive() raises, or KeyboardInterrupt, during the initial polling.
PollInterrupted ==
    /\ pc = "polling"
    /\ pc' = "raised"
    /\ UNCHANGED <<kb, rb, obs>> /\ Frame

\* The end of a pass with a snapshot: the send or the watchdog-only write,
\* then the tracking of move completion.
TickSend(key, snap, now, tilt, g, rec, send) ==
    /\ UNCHANGED <<pl, pc, attempts>>
    /\ keys' = IF key = NoKey THEN keys ELSE keys + 1
    /\ kb' = AfterCompletion(IF send THEN AfterSend(g) ELSE g, snap)
    /\ rb' = IF send
             THEN [rb EXCEPT !.setp = NextPose(g), !.wd = 1, !.wdSent = TRUE]
             ELSE [rb EXCEPT !.wd = g.watchdog, !.wdSent = TRUE]
    /\ obs' = [kind |-> "tick",
               sent |-> IF send THEN NextPose(g) ELSE NoPose,
               wdWrites |-> 1,
               due |-> Ready(snap) /\ now >= SEND_RATE_LIMIT,
               pending |-> Ready(snap) /\ now >= SEND_RATE_LIMIT /\ g.pending_send,
               head |-> IF Ready(snap) /\ now >= SEND_RATE_LIMIT
                           /\ g.segment_queue # <<>>
                        THEN Head(g.segment_queue) ELSE NoPose,
               reg |-> IF send THEN RegSeen(snap) ELSE "na",
               elapsed |-> send /\ now >= SEND_RATE_LIMIT,
               key |-> key,
               synctcp |-> snap.tcp,
               synced |-> SyncedBefore \/ snap.tcp # NoPose,
               tilt |-> IF tilt THEN rec ELSE <<>>,
               live |-> NoPose, ran |-> {}, raised |-> "none"]
    /\ age' = IF send THEN 0 ELSE now
    /\ tilts' = IF tilt THEN tilts + 1 ELSE tilts

\* The send gate, g being the locals that reach it.
TickGate(key, snap, now, tilt, g, rec) ==
    /\ tilt => tilts < MaxTilts
    /\ TickSend(key, snap, now, tilt, g, rec,
                SendGate(g.pending_send, Ready(snap), now))

\* The pass from the auto-tilt on, b the locals before it and g after it.
TickRec(key, snap, now, b, g) ==
    TickGate(key, snap, now, TiltApplies(b, snap), g, TiltRec(b, g, snap))

\* The auto-tilt, b being the locals that reach it.
TickTilt(key, snap, now, b) ==
    TickRec(key, snap, now, b, AfterTilt(b, snap, SingScale(snap)))

\* A pass through the loop body with a state snapshot.
Tick ==
    /\ pc = "loop"
    /\ \E key \in KeyInputs, dt \in Dts :
       \E snap \in Snaps(AfterKey(kb, key).sync_request) :
          TickTilt(key, snap, Min2(SEND_RATE_LIMIT, age + dt),
                   BeforeTilt(kb, key, snap, SingScale(snap)))

\* A pass through the loop body on which receive() returns None.
TickNoState ==
    /\ pc = "loop"
    /\ \E key \in KeyInputs, dt \in Dts :
          /\ kb' = AfterKey(kb, key)
          /\ obs' = [ObsNone EXCEPT !.kind = "nostate", !.key = key,
                                     !.synced = SyncedBefore]
          /\ age' = Min2(SEND_RATE_LIMIT, age + dt)
          /\ keys' = IF key = NoKey THEN keys ELSE keys + 1
    /\ UNCHANGED <<pl, pc, rb, attempts, tilts>>

\* The release steps of the finally block: send_pause(), then disconnect().
KbdRelease == {"pause", "disconnect"}

\* finally: send_pause() inside try/except, then disconnect() outside of it.
\* The release step whose exception leaves the block, the steps of fails
\* being those that raise ("none": the block runs to its end).
FinallyRaised(fails) == IF "disconnect" \in fails THEN "disconnect" ELSE "none"

\* The release steps that were run.
FinallyRan(fails) == KbdRelease

\* The link after the block: a disconnect() that raised has not released it.
Finally(r, fails) ==
    [r EXCEPT !.link = IF "disconnect" \in fails THEN @ ELSE "closed"]

\* The function is left: its locals are gone, the robot keeps what it got.
Leave(kind) ==
    /\ pc = "loop"
    /\ pc' = "closed"
    /\ \E fails \in SUBSET KbdRelease :
          /\ rb' = Finally(rb, fails)
          /\ obs' = [ObsNone EXCEPT !.kind = kind, !.ran = FinallyRan(fails),
                                     !.raised = FinallyRaised(fails)]
    /\ kb' = KbLocals(NoPose)
    /\ attempts' = 0 /\ keys' = 0 /\ tilts' = 0 /\ age' = 0
    /\ UNCHANGED pl

\* ESC: break, then the finally block.
TickEsc == Leave("esc")

\* io.is_alive() returns False: the loop ends, then the finally block.
NotAlive == Leave("notalive")

\* KeyboardInterrupt in the loop body (as in io.sleep), caught; finally.
Interrupt == Leave("interrupt")

\* con.receive() or con.send() raises in the loop body; finally, and the
\* exception goes on to the caller.
LinkRaises == Leave("error")

NextKbd ==
    \/ Connect \/ ConnectFails \/ SetupFails \/ StartRejected \/ StartOk
    \/ PollGotPose \/ PollNothing \/ PollFallback \/ PollInterrupted
    \/ Tick \/ TickNoState \/ TickEsc \/ NotAlive \/ Interrupt \/ LinkRaises

SpecKbd == InitKbd /\ [][NextKbd]_vars

\* A snapshot of a robot that reports ready (output_int_register_0 = 1) and
\* no joint vector.
ReadySnap == [tcp |-> NoPose, hasq5 |-> FALSE, q5 |-> 0, hasreg |-> TRUE, reg |-> 1]

\* A pass of Tick that reads no key and gets ReadySnap.
ReadyTick ==
    /\ pc = "loop"
    /\ \E dt \in Dts :
          TickTilt(NoKey, ReadySnap, Min2(SEND_RATE_LIMIT, age + dt),
                   BeforeTilt(kb, NoKey, ReadySnap, SingScale(ReadySnap)))

\* The loop keeps running and the robot keeps streaming and reporting ready:
\* a pass without key on a snapshot of a ready robot is made again and again
\* as long as it changes anything.
SpecKbdLive == SpecKbd /\ WF_vars(ReadyTick)

\* ------------------------------------------------------------------------
\* wacom_control_loop.py: configuration and map_tablet_to_robot
\* ------------------------------------------------------------------------
TABLET_WIDTH_M == Lit(2032, 10000)
TABLET_HEIGHT_M == Lit(127, 1000)
WACOM_HOME_POSE == <<Lit5(0 - 14397), Lit5(0 - 43562), Lit5(14627),
                     Lit(1, 1000), Lit(0 - 3166, 1000), Lit(0 - 40, 1000)>>
HALF == Lit(5, 10)

\* A mapping that measures the offsets from the far corner of the tablet.
map_tablet_to_robot_FromCorner(tab_x, tab_y, center_pose) ==
    << FAdd(center_pose[1], FMul(FSub(One, tab_x), TABLET_WIDTH_M)),
       FAdd(center_pose[2], FMul(FSub(One, tab_y), TABLET_HEIGHT_M)),
       center_pose[3], center_pose[4], center_pose[5], center_pose[6] >>

map_tablet_to_robot(tab_x, tab_y, center_pose) ==
    << FAdd(center_pose[1], FMul(FSub(HALF, tab_x), TABLET_WIDTH_M)),
       FAdd(center_pose[2], FMul(FSub(HALF, tab_y), TABLET_HEIGHT_M)),
       center_pose[3], center_pose[4], center_pose[5], center_pose[6] >>

\* ------------------------------------------------------------------------
\* run_wacom_loop: state, inputs and actions
\* ------------------------------------------------------------------------
\* The backends tablet_reader.py selects by sys.platform.
Backends == {"evdev", "wintab"}

\* The locals of run_wacom_loop: the pose commanded, the tablet reader
\* ("none": not started, "running", "stopped") and the backend behind it.
WacomLocals(cmd, tablet, backend) ==
    [current_cmd |-> cmd, tablet |-> tablet, backend |-> backend]

\* Normalised coordinates read_normalized() may return on one axis.
TabletAxis == {0, Lit(1, 4), HALF, Lit(3, 4), One}

\* What one read of the tablet brings: a sample <<tx, ty>>, or no sample
\* within the timeout (NoPose).  Without a sample the evdev backend returns
\* (None, None, None), for which TabletReader raises TimeoutError, and the
\* wintab backend lets queue.Empty of Queue.get() through (WacomReadRaises).
TabletReads ==
    (TabletAxis \X TabletAxis) \cup (IF kb.backend = "evdev" THEN {NoPose} ELSE {})

InitWacom ==
    /\ pl = [pc |-> "idle"]
    /\ pc = "wstart"
    /\ \E backend \in Backends : kb = WacomLocals(NoPose, "none", backend)
    /\ rb = RbInit
    /\ obs = ObsNone
    /\ attempts = 0 /\ keys = 0 /\ tilts = 0 /\ age = 0

\* TabletReader(...) or tablet.start() raises: return.
TabletFails ==
    /\ pc = "wstart"
    /\ pc' = "wfailed"
    /\ UNCHANGED <<kb, rb, obs>> /\ Frame

TabletStarts ==
    /\ pc = "wstart"
    /\ pc' = "wconnect"
    /\ kb' = [kb EXCEPT !.tablet = "running"]
    /\ UNCHANGED <<rb, obs>> /\ Frame

\* con.connect() or get_controller_version() raises: tablet.stop(), return.
WacomConnectFails ==
    /\ pc = "wconnect"
    /\ pc' = "wfailed"
    /\ kb' = [kb EXCEPT !.tablet = "stopped"]
    /\ UNCHANGED <<rb, obs>> /\ Frame

WacomConnect ==
    /\ pc = "wconnect"
    /\ pc' = "wsetup"
    /\ rb' = [rb EXCEPT !.link = "open"]
    /\ UNCHANGED <<kb, obs>> /\ Frame

\* A send_*_setup() or send_start() raises: the exception leaves the function.
WacomSetupFails ==
    /\ pc = "wsetup"
    /\ pc' = "wraised"
    /\ UNCHANGED <<kb, rb, obs>> /\ Frame

\* A rejected start after which HOME_POSE is sent all the same.
WacomStartRejected_SendsHome ==
    /\ pc = "wsetup"
    /\ pc' = "wexited"
    /\ kb' = [kb EXCEPT !.tablet = "stopped"]
    /\ rb' = [rb EXCEPT !.setp = WACOM_HOME_POSE, !.wd = 1, !.wdSent = TRUE]
    /\ UNCHANGED obs /\ Frame

\* send_start() returns False: tablet.stop(), return.
WacomStartRejected ==
    /\ pc = "wsetup"
    /\ pc' = "wexited"
    /\ kb' = [kb EXCEPT !.tablet = "stopped"]
    /\ UNCHANGED <<rb, obs>> /\ Frame

\* send_start() succeeds: HOME_POSE and the watchdog value 1 are sent.  The
\* robot streams its state from then on (tcp: the TCP pose of it, NoPose
\* without one); the function calls receive() nowhere.
WacomStartOk ==
    /\ pc = "wsetup"
    /\ pc' = "wloop"
    /\ kb' = [kb EXCEPT !.current_cmd = WACOM_HOME_POSE]
    /\ rb' = [rb EXCEPT !.setp = WACOM_HOME_POSE, !.wd = 1, !.wdSent = TRUE]
    /\ \E tcp \in TcpPoses \cup {NoPose} :
          obs' = [ObsNone EXCEPT !.kind = "winit", !.sent = WACOM_HOME_POSE,
                                 !.wdWrites = 1, !.live = tcp]
    /\ Frame

\* One of the two sends of the initialisation raises: the first before
\* anything is written, the second after the pose is.
WacomInitRaises ==
    /\ pc = "wsetup"
    /\ pc' = "wraised"
    /\ kb' = [kb EXCEPT !.current_cmd = WACOM_HOME_POSE]
    /\ \E written \in BOOLEAN :
          rb' = IF written THEN [rb EXCEPT !.setp = WACOM_HOME_POSE] ELSE rb
    /\ UNCHANGED obs /\ Frame

\* current_cmd after the read of the tablet: the sample mapped around
\* HOME_POSE, or (TimeoutError) the pose held.
AfterRead(cmd, read) ==
    IF read = NoPose
    THEN cmd
    ELSE map_tablet_to_robot(read[1], read[2], WACOM_HOME_POSE)

\* The sends of a pass: current_cmd, then the watchdog (its register is 1).
WacomSend(cmd, kind) ==
    /\ kb' = [kb EXCEPT !.current_cmd = cmd]
    /\ rb' = [rb EXCEPT !.setp = cmd, !.wd = 1, !.wdSent = TRUE]
    /\ obs' = [ObsNone EXCEPT !.kind = kind, !.sent = cmd, !.wdWrites = 1]

\* A pass through the loop body.
WacomTick ==
    /\ pc = "wloop"
    /\ \E read \in TabletReads :
          WacomSend(AfterRead(kb.current_cmd, read),
                    IF read = NoPose THEN "whold" ELSE "wtick")
    /\ UNCHANGED pc /\ Frame

\* The release steps of the finally block: tablet.stop(), the send of the
\* watchdog value 0, then disconnect().
WacomRelease == {"stop", "watchdog", "disconnect"}

\* finally: tablet.stop(); then the watchdog value 0 is sent inside
\* try/except; then disconnect().  The release step whose exception leaves
\* the block, the steps of fails being those that raise.
WacomFinallyRaised(fails) ==
    IF "stop" \in fails THEN "stop"
    ELSE IF "disconnect" \in fails THEN "disconnect" ELSE "none"

\* The release steps that were run: none after a tablet.stop() that raised.
WacomFinallyRan(fails) ==
    IF "stop" \in fails THEN {"stop"} ELSE WacomRelease

\* The link after the block.
WacomFinally(r, fails) ==
    IF "stop" \in fails THEN r
    ELSE [r EXCEPT !.link = IF "disconnect" \in fails THEN @ ELSE "closed",
                   !.wd = IF "watchdog" \in fails THEN @ ELSE 0,
                   !.wdSent = "watchdog" \notin fails \/ @]

\* The loop is left through the finally block.
WacomLeave(kind) ==
    /\ pc = "wloop"
    /\ pc' = "wclosed"
    /\ kb' = WacomLocals(NoPose, "stopped", kb.backend)
    /\ \E fails \in SUBSET WacomRelease :
          /\ rb' = WacomFinally(rb, fails)
          /\ obs' = [ObsNone EXCEPT !.kind = kind,
                                     !.ran = WacomFinallyRan(fails),
                                     !.raised = WacomFinallyRaised(fails)]
    /\ Frame

\* KeyboardInterrupt in the loop body, caught; finally.
WacomInterrupt == WacomLeave("interrupt")

\* read_normalized() raises another exception than TimeoutError, or
\* con.send() raises; finally, and the exception goes on to the caller.
WacomRaises == WacomLeave("error")

\* The read ends at its timeout with an exception that `except TimeoutError`
\* does not catch: queue.Empty of the wintab backend (no packet queued), or
\* (evdev, x known but y not yet) the TypeError of map_tablet_to_robot on the
\* triple (x, None, p) that read_normalized returned; finally, and the
\* exception goes on to the caller.
WacomReadRaises ==
    WacomLeave(IF kb.backend = "wintab" THEN "wempty" ELSE "wpartial")

NextWacom ==
    \/ TabletFails \/ TabletStarts \/ WacomConnectFails \/ WacomConnect
    \/ WacomSetupFails \/ WacomStartRejected \/ WacomStartOk \/ WacomInitRaises
    \/ WacomTick \/ WacomInterrupt \/ WacomRaises \/ WacomReadRaises

SpecWacom == InitWacom /\ [][NextWacom]_vars

\* A session of either control loop: run_control_loop or run_wacom_loop.
InitLoops == InitKbd \/ InitWacom
NextLoops == NextKbd \/ NextWacom
SpecLoops == InitLoops /\ [][NextLoops]_vars

\* ------------------------------------------------------------------------
\* The tablet readers: linux_wacom_evdev.py and wintab_wrapper.py behind
\* tablet_reader.py
\* ------------------------------------------------------------------------
\* None, for a value that is a number otherwise.
NONE == 0 - 1

\* smooth_alpha, as run_wacom_loop constructs its TabletReader.
SMOOTH_ALPHA == Lit(2, 10)

\* The range the device reports for each axis (AbsInfo.min and .max), and the
\* raw values of its events: the ends, the middle, and one beyond the range.
RAW_MIN == 0
RAW_MAX == 2
RawValues == {0, 1, 2, 3}

\* _norm: a raw value normalised to [0, 1].
Norm(val) ==
    IF val = NONE THEN NONE
    ELSE IF val < RAW_MIN THEN 0
    ELSE IF val > RAW_MAX THEN One
    ELSE FDiv(IntF(val - RAW_MIN), IntF(RAW_MAX - RAW_MIN))

\* _ema of the evdev reader: (1 - a) * prev + a * new.
Ema(prev, new) ==
    IF new = NONE THEN prev
    ELSE IF prev = NONE THEN new
    ELSE FAdd(FMul(FSub(One, SMOOTH_ALPHA), prev), FMul(SMOOTH_ALPHA, new))

\* A WacomTabletReader(normalize=True) as constructed:
\*   raw      _x, _y, _p          s   _x_s, _y_s, _p_s
\*   running  _running            dev the device is open
\*   alive    the worker threads that have not ended
\*   left     (a read is polling) the sleeps left to its deadline, NONE
\*            without deadline
\*   slept    (a read is polling) the parity of the sleeps it has done
EvdevReader ==
    [backend |-> "evdev", raw |-> <<NONE, NONE, NONE>>,
     s |-> <<NONE, NONE, NONE>>, running |-> FALSE, dev |-> FALSE,
     alive |-> 0, left |-> NONE, slept |-> 0]

\* What the last call on the reader did: the call, how it ended, and for a
\* read that returned, the triple it returned and (latest) the latest sample
\* the worker had produced by then.
\* evdev: (got) that triple again, the smoothed state being the sample;
\* wintab: (got) the raw packet the triple was computed from.
CallNone ==
    [call |-> "none", kind |-> "none", vals |-> NoPose, got |-> NoPose,
     latest |-> NoPose]

\* A wintab Tablet as constructed:
\*   queue   _queue, the raw packets queued     n     _nx, _ny, _np
\*   stop    _stop is set                       hctx  _hctx is not None
\*   alive   the worker threads that have not ended
\*   cur     _thread refers to a thread that has not ended
\*   latest  (history) the last packet the worker produced
WintabReader ==
    [backend |-> "wintab", queue |-> <<>>, n |-> <<NONE, NONE, NONE>>,
     stop |-> FALSE, hctx |-> FALSE, alive |-> 0, cur |-> FALSE,
     latest |-> NoPose]

InitTablet ==
    /\ pl = [pc |-> "idle"]
    /\ pc = "tidle"
    /\ kb \in {EvdevReader, WintabReader}
    /\ rb = RbInit
    /\ obs = CallNone
    /\ attempts = 0 /\ keys = 0 /\ tilts = 0 /\ age = 0

TabletFrame == UNCHANGED <<pl, rb, tilts, age>>

\* start() of the evdev reader: the device is opened if it is not, _running
\* is set and a worker thread is started.
EvdevStart ==
    /\ pc = "tidle" /\ kb.backend = "evdev" /\ attempts < MaxStarts
    /\ kb' = [kb EXCEPT !.dev = TRUE, !.running = TRUE, !.alive = @ + 1]
    /\ obs' = [CallNone EXCEPT !.call = "start", !.kind = "returned"]
    /\ attempts' = attempts + 1
    /\ UNCHANGED <<pc, keys>> /\ TabletFrame

\* start() raises: _open_device() finds no device.
EvdevStartFails ==
    /\ pc = "tidle" /\ kb.backend = "evdev" /\ attempts < MaxStarts /\ ~kb.dev
    /\ obs' = [CallNone EXCEPT !.call = "start", !.kind = "raised"]
    /\ attempts' = attempts + 1
    /\ UNCHANGED <<pc, kb, keys>> /\ TabletFrame

\* The worker gets an EV_ABS event of the device: with _running cleared it
\* ends; else it stores the value and runs _apply_norm_and_smooth.
EvdevEvent ==
    /\ kb.backend = "evdev" /\ kb.alive > 0 /\ kb.dev /\ keys < MaxEvents
    /\ \E code \in 1..3, value \in RawValues :
          kb' = IF ~kb.running
                THEN [kb EXCEPT !.alive = @ - 1]
                ELSE [kb EXCEPT !.raw[code] = value,
                                !.s = [c \in 1..3 |->
                                         Ema(kb.s[c], Norm(IF c = code THEN value
                                                           ELSE kb.raw[c]))]]
    /\ keys' = keys + 1
    /\ UNCHANGED <<pc, obs, attempts>> /\ TabletFrame

\* The device was closed under a worker: its read_loop() raises and the
\* thread ends (it may as well stay blocked: then this step never comes).
EvdevWorkerEnds ==
    /\ kb.backend = "evdev" /\ kb.alive > 0 /\ ~kb.dev
    /\ kb' = [kb EXCEPT !.alive = @ - 1]
    /\ UNCHANGED <<pc, obs, attempts, keys>> /\ TabletFrame

\* Timeouts the caller passes to read_normalized, in sleeps of 5 ms.
Timeouts == {0, 1, 2}

\* read_normalized(timeout) is called: deadline = now + timeout if timeout,
\* else None.
EvdevReadCall ==
    /\ pc = "tidle" /\ kb.backend = "evdev"
    /\ \E timeout \in Timeouts :
          kb' = [kb EXCEPT !.left = IF timeout # 0 THEN timeout ELSE NONE]
    /\ pc' = "tpoll"
    /\ obs' = [CallNone EXCEPT !.call = "read"]
    /\ UNCHANGED <<attempts, keys>> /\ TabletFrame

\* The read returns vals from the backend: TabletReader raises TimeoutError
\* if vals[0] is None and returns vals otherwise.
ReadEnds(vals) ==
    /\ pc' = "tidle"
    /\ kb' = [kb EXCEPT !.left = NONE, !.slept = 0]
    /\ obs' = [call |-> "read",
               kind |-> IF vals[1] = NONE THEN "timeout" ELSE "returned",
               vals |-> vals, got |-> vals, latest |-> kb.s]

\* One iteration of _read_with_timeout: the triple is returned if it is
\* complete or the deadline has passed; else the call sleeps 5 ms.
EvdevReadPoll ==
    /\ pc = "tpoll" /\ kb.backend = "evdev"
    /\ IF (\A c \in 1..3 : kb.s[c] # NONE) \/ kb.left = 0
       THEN ReadEnds(kb.s)
       ELSE /\ kb' = [kb EXCEPT !.left = IF @ = NONE THEN NONE ELSE @ - 1,
                                !.slept = 1 - @]
            /\ UNCHANGED <<pc, obs>>
    /\ UNCHANGED <<attempts, keys>> /\ TabletFrame

\* A join without timeout: it returns once the thread has ended.
JoinReturns_NoTimeout(alive) == alive = 0

\* thread.join(timeout=...) returns, the thread having ended or not.
JoinReturns(alive) == TRUE

\* stop() of the evdev reader, up to the join: _running is cleared.
EvdevStopCall ==
    /\ pc = "tidle" /\ kb.backend = "evdev"
    /\ kb' = [kb EXCEPT !.running = FALSE]
    /\ pc' = "tjoin"
    /\ obs' = [CallNone EXCEPT !.call = "stop"]
    /\ UNCHANGED <<attempts, keys>> /\ TabletFrame

\* stop() of the evdev reader from the join on: the device is closed (an
\* exception of close() is swallowed) and dev is set to None.
EvdevStopEnds ==
    /\ pc = "tjoin" /\ kb.backend = "evdev"
    /\ JoinReturns(kb.alive)
    /\ kb' = [kb EXCEPT !.dev = FALSE]
    /\ pc' = "tidle"
    /\ obs' = [CallNone EXCEPT !.call = "stop", !.kind = "returned"]
    /\ UNCHANGED <<attempts, keys>> /\ TabletFrame

\* start() of the wintab reader: nothing if _thread is a live thread; else
\* a worker is started, which opens the context.
WintabStart ==
    /\ pc = "tidle" /\ kb.backend = "wintab" /\ attempts < MaxStarts
    /\ kb' = IF kb.cur THEN kb
             ELSE [kb EXCEPT !.alive = @ + 1, !.cur = TRUE, !.hctx = TRUE]
    /\ obs' = [CallNone EXCEPT !.call = "start", !.kind = "returned"]
    /\ attempts' = attempts + 1
    /\ UNCHANGED <<pc, keys>> /\ TabletFrame

\* start() raises WintabError: the worker could not open a context and ended.
WintabStartFails ==
    /\ pc = "tidle" /\ kb.backend = "wintab" /\ attempts < MaxStarts
    /\ ~kb.cur
    /\ obs' = [CallNone EXCEPT !.call = "start", !.kind = "raised"]
    /\ attempts' = attempts + 1
    /\ UNCHANGED <<pc, kb, keys>> /\ TabletFrame

\* Packets of the tablet: x, y and pressure in raw units.
Packets == {<<x, y, 0>> : x \in {0, 2}, y \in {1, 3}}

\* _handle_msg on WT_PACKET: the packet is queued, the oldest packet being
\* dropped when the queue is full.
WintabPacket ==
    /\ kb.backend = "wintab" /\ kb.alive > 0 /\ ~kb.stop /\ kb.hctx
    /\ keys < MaxEvents
    /\ \E raw_data \in Packets :
          kb' = [kb EXCEPT !.queue = Append(IF Len(@) < MaxQueue THEN @
                                            ELSE Tail(@), raw_data),
                           !.latest = raw_data]
    /\ keys' = keys + 1
    /\ UNCHANGED <<pc, obs, attempts>> /\ TabletFrame

\* A worker leaves its message loop once _stop is set, closes the context
\* and ends: the thread _thread refers to, or one that a stop() gave up
\* joining.
WintabWorkerEnds ==
    /\ kb.backend = "wintab" /\ kb.alive > 0 /\ kb.stop
    /\ \E cur \in BOOLEAN :
          /\ cur => kb.cur
          /\ ~cur => kb.alive > (IF kb.cur THEN 1 ELSE 0)
          /\ kb' = [kb EXCEPT !.alive = @ - 1, !.hctx = FALSE,
                              !.cur = @ /\ ~cur]
    /\ UNCHANGED <<pc, obs, attempts, keys>> /\ TabletFrame

\* _ema of the wintab reader.
WintabEma(prev, new) ==
    IF new = NONE \/ prev = NONE THEN new
    ELSE FAdd(FMul(FSub(One, SMOOTH_ALPHA), prev), FMul(SMOOTH_ALPHA, new))

\* _nx, _ny, _np after the packet raw.
Smoothed(n, raw) == [c \in 1..3 |-> WintabEma(n[c], Norm(raw[c]))]

\* read_normalized(timeout) of the wintab reader: WintabError without a
\* context; else Queue.get(timeout) takes the packet at the head of the
\* queue, or raises queue.Empty at the timeout.
WintabRead ==
    /\ pc = "tidle" /\ kb.backend = "wintab"
    /\ IF ~kb.hctx
       THEN /\ obs' = [CallNone EXCEPT !.call = "read", !.kind = "raised"]
            /\ UNCHANGED kb
       ELSE IF kb.queue = <<>>
       THEN /\ obs' = [CallNone EXCEPT !.call = "read", !.kind = "empty"]
            /\ UNCHANGED kb
       ELSE /\ kb' = [kb EXCEPT !.queue = Tail(@),
                                !.n = Smoothed(@, Head(kb.queue))]
            /\ obs' = [call |-> "read", kind |-> "returned",
                       vals |-> Smoothed(kb.n, Head(kb.queue)),
                       got |-> Head(kb.queue), latest |-> kb.latest]
    /\ UNCHANGED <<pc, attempts, keys>> /\ TabletFrame

\* stop() of the wintab reader, up to the join: _stop is set and the worker
\* is woken by a message.
WintabStopCall ==
    /\ pc = "tidle" /\ kb.backend = "wintab"
    /\ kb' = [kb EXCEPT !.stop = TRUE]
    /\ pc' = "tjoin"
    /\ obs' = [CallNone EXCEPT !.call = "stop"]
    /\ UNCHANGED <<attempts, keys>> /\ TabletFrame

\* stop() of the wintab reader from the join on: _thread, _wt, _hwnd and
\* _hctx are set to None.
WintabStopEnds ==
    /\ pc = "tjoin" /\ kb.backend = "wintab"
    /\ JoinReturns(kb.alive)
    /\ kb' = [kb EXCEPT !.hctx = FALSE, !.cur = FALSE]
    /\ pc' = "tidle"
    /\ obs' = [CallNone EXCEPT !.call = "stop", !.kind = "returned"]
    /\ UNCHANGED <<attempts, keys>> /\ TabletFrame

NextTablet ==
    \/ EvdevStart \/ EvdevStartFails \/ EvdevEvent \/ EvdevWorkerEnds
    \/ EvdevReadCall \/ EvdevReadPoll \/ EvdevStopCall \/ EvdevStopEnds
    \/ WintabStart \/ WintabStartFails \/ WintabPacket \/ WintabWorkerEnds
    \/ WintabRead \/ WintabStopCall \/ WintabStopEnds

SpecTablet == InitTablet /\ [][NextTablet]_vars

\* The caller's thread keeps running: a read that polls goes on polling and
\* a stop() that has begun goes on.  Nothing is assumed of the workers.
SpecTabletLive ==
    /\ SpecTablet
    /\ WF_vars(EvdevReadPoll)
    /\ WF_vars(EvdevStopEnds)
    /\ WF_vars(WintabStopEnds)

\* ------------------------------------------------------------------------
\* Specification of plan_segments as a function of its arguments
\* ------------------------------------------------------------------------
PlanX == {Lit(0 - 1097, 1000), 0, Lit(455, 1000), Lit(2, 1)}
PlanY == {0, Lit(866, 1000)}
PlanRy == {0, Lit(0 - 3116, 1000), Lit(7, 1)}
PlanPoses == {<<x, y, 0, 0, ry, 0>> : x \in PlanX, y \in PlanY, ry \in PlanRy}
PlanSteps == {<<DEF_POS_SEG, DEF_ROT_SEG>>, <<MIN_SEG, MIN_ROT_SEG>>}

KbdIdle ==
    /\ pc = "idle"
    /\ kb = KbLocals(NoPose)
    /\ rb = RbInit
    /\ obs = ObsNone
    /\ attempts = 0 /\ keys = 0 /\ tilts = 0 /\ age = 0

InitPlan ==
    /\ KbdIdle
    /\ \E s \in PlanPoses, g \in PlanPoses, st \in PlanSteps :
          pl = [pc |-> "call", start |-> s, goal |-> g,
                max_pos_step |-> st[1], max_rot_step |-> st[2], out |-> <<>>]

PlanCall ==
    /\ pl.pc = "call"
    /\ pl' = [pl EXCEPT !.pc = "done",
                        !.out = plan_segments(pl.start, pl.goal,
                                              pl.max_pos_step, pl.max_rot_step)]
    /\ UNCHANGED <<pc, kb, rb, obs, attempts, keys, tilts, age>>

NextPlan == PlanCall

SpecPlan == InitPlan /\ [][NextPlan]_vars

\* ------------------------------------------------------------------------
\* Specification of clamp_pose as a function of its argument
\* ------------------------------------------------------------------------
\* Coordinates inside, on and beyond the bounds of each rule.
ClampX == {Lit(0 - 2, 1), 0 - XY_LIM, Lit(3, 10), XY_LIM, Lit(2, 1)}
ClampY == {Lit(0 - 16, 10), 0}
ClampZ == {Lit(0 - 3, 10), Z_MIN, 0, Z_MAX, Lit(16, 10)}
ClampR == {Lit(0 - 13, 1), Lit(0 - 7, 1), 0 - ROT_LIM, 0, Lit(31, 10), ROT_LIM,
           Lit(7, 1), Lit(13, 1)}
ClampPoses ==
    {<<x, y, z, rx, ry, rz>> : x \in ClampX, y \in ClampY, z \in ClampZ,
                               rx \in {0, Lit(7, 1)}, ry \in ClampR,
                               rz \in {0, Lit(0 - 7, 1)}}

InitClamp ==
    /\ KbdIdle
    /\ \E p \in ClampPoses :
          pl = [pc |-> "clamp", arg |-> p, out |-> p, calls |-> 0]

\* clamp_pose is called: first on the argument, then on its own result.
ClampCall ==
    /\ pl.pc = "clamp" /\ pl.calls < 2
    /\ pl' = [pl EXCEPT !.out = clamp_pose(pl.out), !.calls = @ + 1]
    /\ UNCHANGED <<pc, kb, rb, obs, attempts, keys, tilts, age>>

NextClamp == ClampCall

SpecClamp == InitClamp /\ [][NextClamp]_vars

\* ------------------------------------------------------------------------
\* Specification of map_tablet_to_robot as a function of its arguments
\* ------------------------------------------------------------------------
\* tab_x sweeps [0, 1] in steps of 1/64, with the floats next to 0 and below
\* 0.5; tab_y takes the values of TabletAxis; center_pose is HOME_POSE, the
\* one the loop passes, or another pose.
InitMap ==
    /\ KbdIdle
    /\ \E tx \in {i * (One \div 64) : i \in 0..64} \cup {1, HALF - 1},
          ty \in TabletAxis, c \in {WACOM_HOME_POSE, TcpA} :
          pl = [pc |-> "map", tab_x |-> tx, tab_y |-> ty, center_pose |-> c,
                out |-> NoPose]

MapCall ==
    /\ pl.pc = "map"
    /\ pl' = [pl EXCEPT !.pc = "mapped",
                        !.out = map_tablet_to_robot(pl.tab_x, pl.tab_y,
                                                    pl.center_pose)]
    /\ UNCHANGED <<pc, kb, rb, obs, attempts, keys, tilts, age>>

SpecMap == InitMap /\ [][MapCall]_vars

\* ------------------------------------------------------------------------
\* Specification of the singularity scale as a function of q5
\* ------------------------------------------------------------------------
\* The wrist angles of the sweep: every float from -0.3 rad to 0.3 rad.  Below
\* SigLim quanta the floats are the whole numbers of quanta.
Q5_SWEEP == Lit(3, 10)
Q5Sweep == (0 - Q5_SWEEP)..Q5_SWEEP

\* A snapshot of which only the joint vector matters.
Q5Snap(hasq5, q5) ==
    [tcp |-> NoPose, hasq5 |-> hasq5, q5 |-> q5, hasreg |-> FALSE, reg |-> 0]

\* pl holds the snapshot of a tick whose scale is asked for, the scale once
\* it is computed, and (prev) the snapshot and scale of the tick before, whose
\* q5 was the next float farther from zero.
InitScale ==
    /\ KbdIdle
    /\ \E hasq5 \in BOOLEAN, q5 \in Q5Sweep :
          /\ hasq5 \/ q5 = 0
          /\ pl = [pc |-> "scale", snap |-> Q5Snap(hasq5, q5),
                   out |-> 0, pos_seg |-> 0, rot_seg |-> 0, prev |-> <<>>]

\* The scale of the tick is computed, and from it the step limits that the
\* tick hands to plan_segments.
ScaleCall ==
    /\ pl.pc = "scale"
    /\ pl' = [pl EXCEPT !.pc = "scaled", !.out = SingScale(pl.snap),
                        !.pos_seg = PosSeg(SingScale(pl.snap)),
                        !.rot_seg = RotSeg(SingScale(pl.snap))]
    /\ UNCHANGED <<pc, kb, rb, obs, attempts, keys, tilts, age>>

\* The next tick: the wrist has moved to the next float toward zero.
ScaleNext ==
    /\ pl.pc = "scaled" /\ pl.snap.hasq5 /\ pl.snap.q5 # 0
    /\ pl' = [pc |-> "scale",
              snap |-> Q5Snap(TRUE, pl.snap.q5 - Sgn(pl.snap.q5)),
              out |-> 0, pos_seg |-> 0, rot_seg |-> 0,
              prev |-> <<Abs(pl.snap.q5), pl.out>>]
    /\ UNCHANGED <<pc, kb, rb, obs, attempts, keys, tilts, age>>

NextScale == ScaleCall \/ ScaleNext

SpecScale == InitScale /\ [][NextScale]_vars

\* ------------------------------------------------------------------------
\* Properties
\* ------------------------------------------------------------------------
\* C1: plan_segments returns a non-empty list whose last element equals
\* clamp_pose(goal), for every start, goal and positive step limits.
C1_LastIsClampedGoal ==
    pl.pc = "done" =>
        /\ Len(pl.out) >= 1
        /\ pl.out[Len(pl.out)] = clamp_pose(pl.goal)

\* p lies inside the clamp bounds.
InBounds(p) ==
    /\ 0 - XY_LIM <= p[1] /\ p[1] <= XY_LIM
    /\ 0 - XY_LIM <= p[2] /\ p[2] <= XY_LIM
    /\ Z_MIN <= p[3] /\ p[3] <= Z_MAX
    /\ \A k \in 4..6 : Abs(p[k]) <= ROT_LIM

\* C2: in the keyboard loop the desired pose and every pose written to the
\* setpoint registers lie inside the clamp bounds, the pose taken from the
\* live TCP pose at initialisation and the first pose sent included.
C2_PosesInsideClampBounds ==
    /\ pc = "loop" => InBounds(kb.desired)
    /\ rb.setp # NoPose => InBounds(rb.setp)

\* C3: whenever a pose is written to the link, the watchdog value the robot
\* holds at that moment is non-zero.
C3_WatchdogEnabledBeforePose ==
    [][obs'.kind = "tick" /\ obs'.sent # NoPose => rb.wd # 0]_vars

\* C4: once a pose has been streamed, the last watchdog value written to the
\* link before the loop releases it is zero, on every way out of the loop.
C4_HoldWrittenBeforeRelease ==
    pc = "closed" /\ rb.setp # NoPose => rb.wd = 0

\* C5: once connect() has succeeded, every return or raise of the control
\* loop function has called disconnect() on the link.
C5_DisconnectOnEveryExit ==
    pc \in {"raised", "exited", "closed"} => rb.link = "closed"

\* C6: every pass through the loop body writes the watchdog to the link, a
\* pass on which receive() returned no snapshot included.
C6_WatchdogWrittenEveryTick ==
    obs.kind \in {"tick", "nostate"} => obs.wdWrites >= 1

\* C7: while the loop keeps streaming (no shutdown, no operator input on the
\* pass), a non-zero watchdog register is never set back to zero.
C7_EnabledUntilShutdown ==
    [][pc' = "loop" /\ keys' = keys /\ rb.wd # 0 => rb'.wd # 0]_vars

\* C8: at the end of every pass through the keyboard loop, a non-empty
\* segment queue ends at the current desired pose.
C8_QueueEndsAtDesired ==
    pc = "loop" /\ kb.segment_queue # <<>> =>
        kb.segment_queue[Len(kb.segment_queue)] = kb.desired

\* C9 (as stated): a pose is written on a pass only if the snapshot's output
\* register equals 1 and the minimum inter-send interval has passed since
\* the previous pose send.
C9_SendOnlyWhenRegisterIsOne ==
    obs.sent # NoPose => obs.reg = "one" /\ obs.elapsed

\* C9 (amended): a pose is written on a pass only if the snapshot's output
\* register equals 1 or the snapshot carries no such register, and the
\* minimum inter-send interval has passed since the previous pose send.
C9_SendOnlyWhenReadyAndSpaced ==
    obs.sent # NoPose => obs.reg \in {"one", "absent"} /\ obs.elapsed

\* A pose went out on a snapshot whose register is 1.
C9_SentOnRegisterOne == obs.sent # NoPose /\ obs.reg = "one"

\* The pose a due pass has to write: the head of the queue, else desired.
PoseDue == IF obs.head # NoPose THEN obs.head ELSE kb.desired

\* C10 (as stated): on every pass with a snapshot that passes for ready and
\* with the minimum interval over, a pose is sent together with the
\* watchdog: the head of the queue if there is one, else the desired pose.
C10_PoseSentWheneverDue ==
    obs.due => obs.sent # NoPose /\ obs.sent = PoseDue /\ obs.wdWrites = 1

\* C10 (amended): the same on every such pass on which a send is pending.
C10_PendingPoseSentWhenDue ==
    obs.due /\ obs.pending =>
        obs.sent # NoPose /\ obs.sent = PoseDue /\ obs.wdWrites = 1

\* A due pass with a send pending and waypoints queued.
C10_QueueHeadDue == obs.due /\ obs.pending /\ obs.head # NoPose

\* C11: between two consecutive pose sends of the keyboard loop with no sync
\* applied in between, the poses sent differ by at most 0.005 m on each
\* position axis and by at most 0.03 rad on each orientation axis.
C11_SentPosesOneStepApart ==
    [][obs'.kind = "tick" /\ obs'.sent # NoPose /\ rb.setp # NoPose
          /\ ~obs'.synced =>
             /\ \A k \in 1..3 : Abs(obs'.sent[k] - rb.setp[k]) <= DEF_POS_SEG
             /\ \A k \in 4..6 : Abs(obs'.sent[k] - rb.setp[k]) <= DEF_ROT_SEG]_vars

\* C12: in the tablet loop two consecutive poses sent never differ by more
\* than the planner's maximum position step on a position axis, however far
\* apart two pointer samples are.
C12_TabletPosesOneStepApart ==
    [][obs'.kind \in {"wtick", "whold"} /\ rb.setp # NoPose =>
          \A k \in 1..3 : Abs(obs'.sent[k] - rb.setp[k]) <= DEF_POS_SEG]_vars

\* C13: on the pass that applies a sync to a snapshot's TCP pose, desired and
\* current_cmd both become clamp_pose(TCP pose), nothing queued before is
\* kept or sent (what is queued or sent is the clamped TCP pose itself) and
\* the request is cleared; a request made or pending on a pass that applies
\* no sync stays pending.
C13_SyncSnapsToLivePose ==
    [][/\ obs'.synctcp # NoPose =>
             /\ kb'.desired = clamp_pose(obs'.synctcp)
             /\ kb'.current_cmd = clamp_pose(obs'.synctcp)
             /\ \A i \in 1..Len(kb'.segment_queue) :
                   kb'.segment_queue[i] = clamp_pose(obs'.synctcp)
             /\ obs'.sent \in {NoPose, clamp_pose(obs'.synctcp)}
             /\ ~kb'.sync_request
       /\ obs'.kind \in {"tick", "nostate"} /\ obs'.synctcp = NoPose
             /\ (kb.sync_request \/ obs'.key = "c") => kb'.sync_request]_vars

\* A sync was applied to a TCP pose below the floor of the clamp box, on a
\* pass that read a key.
C13_SyncApplied ==
    /\ obs.synctcp = TcpB /\ obs.key # NoKey
    /\ kb.desired = clamp_pose(TcpB) /\ kb.desired # TcpB

\* The queue the auto-tilt of the pass planned, from the last commanded pose
\* to the desired pose the pass leaves.
TiltPlan ==
    plan_segments(obs.tilt.cmdFrom, kb.desired,
                  PosSeg(kb.last_scale), RotSeg(kb.last_scale))

\* C16: on a pass that applies the auto-tilt, |q5| <= LIMIT, ry of the
\* desired pose changes by exactly 0.07 rad, up when q5 >= 0 and down when
\* q5 < 0, and the queue is replanned from the last commanded pose to the
\* new desired pose (its head being gone when the pass sent it).
C16_TiltByExactStep ==
    obs.tilt # <<>> =>
        /\ Abs(obs.tilt.q5) <= WRIST2_LIMIT
        /\ kb.desired[5] - obs.tilt.from[5]
              = IF obs.tilt.q5 >= 0 THEN TILT_STEP ELSE 0 - TILT_STEP
        /\ kb.segment_queue
              = IF obs.sent # NoPose THEN Tail(TiltPlan) ELSE TiltPlan

\* C17: an auto-tilt leaves x, y and z of the desired pose and the last
\* commanded pose as they were.
C17_TiltKeepsPosition ==
    obs.tilt # <<>> =>
        /\ \A k \in 1..3 : kb.desired[k] = obs.tilt.from[k]
        /\ obs.tilt.cmdTo = obs.tilt.cmdFrom

\* An auto-tilt was applied to a desired pose on the floor of the clamp box,
\* in a run initialised from a live TCP pose below that floor.
C17_TiltedFromLivePose ==
    /\ obs.tilt # <<>>
    /\ obs.tilt.from[5] # kb.desired[5]
    /\ obs.tilt.from[3] = Z_MIN

\* C14: the singularity scale is exactly 1.0 when |q5| >= WARN or q5 is
\* unavailable, exactly 0.1 when |q5| <= LIMIT, and
\* max(0.2, (|q5| - LIMIT) / (WARN - LIMIT)) in between; it lies in (0, 1].
C14_ScaleByBand ==
    pl.pc = "scaled" =>
        /\ ~pl.snap.hasq5 \/ Abs(pl.snap.q5) >= Lit(25, 100) => pl.out = One
        /\ pl.snap.hasq5 /\ Abs(pl.snap.q5) <= Lit(10, 100) => pl.out = Lit(1, 10)
        /\ pl.snap.hasq5 /\ Lit(10, 100) < Abs(pl.snap.q5)
              /\ Abs(pl.snap.q5) < Lit(25, 100) =>
                 \/ pl.out = Lit(2, 10)
                       /\ FDiv(FSub(Abs(pl.snap.q5), Lit(10, 100)),
                               FSub(Lit(25, 100), Lit(10, 100))) <= Lit(2, 10)
                 \/ pl.out = FDiv(FSub(Abs(pl.snap.q5), Lit(10, 100)),
                                  FSub(Lit(25, 100), Lit(10, 100)))
                       /\ pl.out >= Lit(2, 10)
        /\ 0 < pl.out /\ pl.out <= One

\* A scale was computed on the ramp, above its floor and below 1.0.
C14_ScaledOnRamp ==
    /\ pl.pc = "scaled" /\ pl.snap.hasq5
    /\ Lit(10, 100) < Abs(pl.snap.q5) /\ Abs(pl.snap.q5) < Lit(25, 100)
    /\ Lit(2, 10) < pl.out /\ pl.out < One

\* The scale is computed for a wrist angle in the closed band [LIMIT, WARN],
\* the tick before having had the next float farther from zero, in the band
\* as well.
ScaledInBand ==
    /\ pl.pc = "scaled" /\ pl.prev # <<>>
    /\ WRIST2_LIMIT <= Abs(pl.snap.q5)
    /\ pl.prev[1] <= WRIST2_WARN

\* The most the ramp rises from one float of q5 to the next: its slope
\* 1 / (WARN - LIMIT), and one quantum for the rounding of the two values.
RampRise == CeilInt(FDiv(One, FSub(WRIST2_WARN, WRIST2_LIMIT))) + 1

\* C15 (as stated): as |q5| decreases from WARN to LIMIT the scale never
\* increases, and it has no jump anywhere in the closed band, |q5| = WARN
\* and |q5| = LIMIT included: from one float of q5 to the next the scale
\* changes by no more than the ramp does.
C15_ContinuousOverClosedBand ==
    ScaledInBand => pl.out <= pl.prev[2] /\ pl.prev[2] - pl.out <= RampRise

\* C15 (amended): the scale never increases as |q5| decreases from WARN to
\* LIMIT and has no jump for LIMIT < |q5| <= WARN; at |q5| = LIMIT it steps
\* from the floor 0.2 of the ramp down to 0.1.
C15_NonIncreasingStepAtLimit ==
    ScaledInBand =>
        /\ pl.out <= pl.prev[2]
        /\ Abs(pl.snap.q5) > WRIST2_LIMIT => pl.prev[2] - pl.out <= RampRise
        /\ Abs(pl.snap.q5) = WRIST2_LIMIT =>
              pl.prev[2] = SCALE_FLOOR /\ pl.out = SCALE_LIMIT

\* The scale was computed at |q5| = LIMIT right after the float above it.
C15_ReachedLimit ==
    ScaledInBand /\ Abs(pl.snap.q5) = WRIST2_LIMIT /\ pl.prev[2] > pl.out

\* The call of plan_segments has returned for a start and a goal of the same
\* orientation.
PlanSameOrientation ==
    pl.pc = "done" /\ \A k \in 4..6 : pl.start[k] = pl.goal[k]

\* The square of the Euclidean distance between the positions of p and q.
DistSq(p, q) ==
    (p[1] - q[1]) * (p[1] - q[1]) + (p[2] - q[2]) * (p[2] - q[2])
        + (p[3] - q[3]) * (p[3] - q[3])

\* Waypoint i - 1 of the plan, the start for i = 1.
PlanPrev(i) == IF i = 1 THEN pl.start ELSE pl.out[i - 1]

\* C18: for a start and goal of the same orientation, the number n of
\* waypoints equals max(1, ceil(d / max_pos_step)), d the Euclidean distance
\* of the positions ((n-1) * step < d <= n * step, compared in squares), and
\* the Euclidean distance between consecutive waypoints, and from start to
\* the first, never exceeds max_pos_step.
C18_EuclideanStepCount ==
    PlanSameOrientation =>
        /\ Len(pl.out) >= 1
        /\ DistSq(pl.start, pl.goal)
              <= (Len(pl.out) * pl.max_pos_step) * (Len(pl.out) * pl.max_pos_step)
        /\ Len(pl.out) > 1 =>
              DistSq(pl.start, pl.goal)
                 > ((Len(pl.out) - 1) * pl.max_pos_step)
                      * ((Len(pl.out) - 1) * pl.max_pos_step)
        /\ \A i \in 1..Len(pl.out) :
              DistSq(PlanPrev(i), pl.out[i]) <= pl.max_pos_step * pl.max_pos_step

\* The call of plan_segments has returned for a pure translation along x.
PlanAlongX ==
    /\ pl.pc = "done"
    /\ pl.start[1] # pl.goal[1]
    /\ \A k \in 2..6 : pl.start[k] = pl.goal[k]

\* ceil(a / b) of the exact quotient of integers a >= 0 and b > 0.
CeilDiv(a, b) == (a + b - 1) \div b

\* C19: for a pure translation of length D along x with maximum position
\* step s, plan_segments returns exactly n = ceil(D / s) waypoints, waypoint
\* i lies at start + i * D / n on x, and the waypoints move strictly toward
\* the goal.
C19_EvenlySpacedAlongAxis ==
    PlanAlongX =>
        /\ Len(pl.out) = CeilDiv(Abs(pl.goal[1] - pl.start[1]), pl.max_pos_step)
        /\ \A i \in 1..Len(pl.out) :
              /\ Len(pl.out) * (pl.out[i][1] - pl.start[1])
                    = i * (pl.goal[1] - pl.start[1])
              /\ (pl.out[i][1] - PlanPrev(i)[1]) * (pl.goal[1] - pl.start[1]) > 0

\* C20: when goal equals start, plan_segments returns a list of exactly one
\* element, equal to clamp_pose(start).
C20_SamePoseOneWaypoint ==
    pl.pc = "done" /\ pl.goal = pl.start => pl.out = <<clamp_pose(pl.start)>>

\* plan_segments has returned for a goal equal to a start that lies outside
\* the clamp bounds.
C20_PlannedInPlace ==
    pl.pc = "done" /\ pl.goal = pl.start /\ ~InBounds(pl.start)
        /\ Len(pl.out) = 1

\* C21: clamp_pose is idempotent: clamping a pose that is the result of
\* clamp_pose gives that pose again.
C21_ClampIdempotent ==
    [][pl.pc = "clamp" /\ pl.calls >= 1 => pl'.out = pl.out]_vars

\* clamp_pose was called twice, the first call having changed a position and
\* a rotation.
C21_ClampedTwice ==
    /\ pl.pc = "clamp" /\ pl.calls = 2
    /\ pl.arg[1] > XY_LIM /\ pl.arg[3] < Z_MIN /\ Abs(pl.arg[5]) > ROT_LIM
    /\ pl.out = clamp_pose(pl.arg) /\ pl.out # pl.arg

\* C22: a pass of the tablet loop on which the read of the pointer times out
\* does not end the loop: the pose sent is the pose sent before and the
\* watchdog is written, with either backend.
C22_TimeoutHoldsPose ==
    [][pc = "wloop" /\ obs'.kind \in {"whold", "wempty"} =>
          pc' = "wloop" /\ obs'.sent = rb.setp /\ obs'.wdWrites = 1]_vars

\* C23: read_normalized of a reader constructed with normalize=True either
\* raises TimeoutError or returns a triple whose three components are
\* numbers in [0, 1], none of them missing.
C23_ReadReturnsCompleteTriple ==
    obs.call = "read" /\ obs.kind = "returned" =>
        \A c \in 1..3 : obs.vals[c] # NONE /\ 0 <= obs.vals[c] /\ obs.vals[c] <= One

\* C24: a call of read_normalized with a timeout t >= 0 terminates, by
\* returning or raising, even if the worker never delivers a sample.
C24_ReadTerminates == (pc = "tpoll") ~> (pc = "tidle")

\* C25: a read that returns a sample returns the most recent sample the
\* worker had produced.
C25_ReadReturnsLatest ==
    obs.call = "read" /\ obs.kind = "returned" => obs.got = obs.latest

\* A stop() begun on a reader that is stopped already (its _running or _stop
\* flag says so, no device or context is held) leaves the fields as they are.
StoppedStaysStopped ==
    (pc = "tidle" /\ pc' = "tjoin"
        /\ (IF kb.backend = "evdev" THEN ~kb.running /\ ~kb.dev
                                    ELSE kb.stop /\ ~kb.hctx)) => kb' = kb

\* C26: stop() on a tablet reader terminates whatever the worker does, and
\* a second stop() raises nothing and leaves the reader as stopped as it was.
C26_StopTerminates ==
    /\ (pc = "tjoin") ~> (pc = "tidle" /\ obs.call = "stop" /\ obs.kind = "returned")
    /\ [][StoppedStaysStopped]_vars
    /\ [][pc = "tjoin" /\ pc' = "tidle" =>
             IF kb.backend = "evdev" THEN ~kb'.running /\ ~kb'.dev
                                     ELSE kb'.stop /\ ~kb'.hctx]_vars

\* stop() has returned while a worker of the reader has not ended.
C26_StoppedWithWorkerAlive ==
    obs.call = "stop" /\ obs.kind = "returned" /\ kb.alive > 0

\* C27: a session in which the link fails to connect, or in which
\* send_start() returns False, is over before the loop is entered: it takes
\* no further step, and no pose and no watchdog value has been written to
\* the link.
C27_AbortedSessions == {"failed", "exited", "wfailed", "wexited"}
C27_AbortWritesNothing ==
    /\ [](pc \in C27_AbortedSessions => rb.setp = NoPose /\ ~rb.wdSent)
    /\ [][pc \notin C27_AbortedSessions]_vars

\* A session of each loop whose start the robot rejected, the link connected.
C27_StartRejected == pc \in {"exited", "wexited"} /\ rb.link # "none"

\* C28: when a control loop function is left through its finally block, no
\* exception of a release step has left the function and every release
\* step of the block was run.
C28_ReleaseFailuresSwallowed ==
    /\ pc = "closed" => obs.raised = "none" /\ obs.ran = KbdRelease
    /\ pc = "wclosed" => obs.raised = "none" /\ obs.ran = WacomRelease

\* C29: the initialisation of each control loop ends within 100 receive
\* attempts, and the loop is entered with the pose it commands (and, in the
\* keyboard loop, the desired pose) equal to the TCP pose the robot supplied
\* by then, or to the home pose if it supplied none.
C29_StartsFromLivePose ==
    /\ pc = "polling" => attempts <= POLL_ATTEMPTS
    /\ pc = "loop" /\ obs.kind = "init" =>
          /\ kb.desired = (IF obs.live # NoPose THEN obs.live ELSE HOME_POSE)
          /\ kb.current_cmd = kb.desired
    /\ pc = "wloop" /\ obs.kind = "winit" =>
          kb.current_cmd = (IF obs.live # NoPose THEN obs.live ELSE WACOM_HOME_POSE)

\* The keys a branch of the key handling names (ESC apart).
CommandKeys == DirtyKeys \cup {"+", "-", "c"}

\* C30: a pass of the keyboard loop that reads no key, or a key that no
\* branch of the key handling names, leaves the base step sizes as they
\* were; if the pass ends after the key handling (no snapshot), so are the
\* desired pose, the sync request, the segment queue and pending_send; and
\* with a snapshot, unless a sync or an auto-tilt is applied, the desired
\* pose and the sync request are as they were and the queue is the one
\* planned before, less at most the waypoint sent.
C30_UnknownKeyIsNoOp ==
    [][pc = "loop" /\ obs'.kind \in {"tick", "nostate"}
          /\ obs'.key \notin CommandKeys =>
        /\ kb'.base_pos_step = kb.base_pos_step
        /\ kb'.base_rot_step = kb.base_rot_step
        /\ obs'.kind = "nostate" =>
              /\ kb'.desired = kb.desired
              /\ kb'.sync_request = kb.sync_request
              /\ kb'.segment_queue = kb.segment_queue
              /\ kb'.pending_send = kb.pending_send
        /\ obs'.kind = "tick" /\ obs'.synctcp = NoPose /\ obs'.tilt = <<>> =>
              /\ kb'.desired = kb.desired
              /\ kb'.sync_request = kb.sync_request
              /\ \/ kb'.segment_queue = kb.segment_queue
                 \/ /\ kb.segment_queue # <<>>
                    /\ kb'.segment_queue = Tail(kb.segment_queue)]_vars

\* A key without a branch was read while waypoints were queued.
C30_UnknownKeyOnPlan ==
    obs.kind = "tick" /\ obs.key = "x" /\ kb.segment_queue # <<>>

\* The component (1..6: x y z rx ry rz) a movement key steps, and the sign
\* of the step.
MoveAxis(key) ==
    CASE key \in {"RIGHT", "LEFT"} -> 1
      [] key \in {"UP", "DOWN"} -> 2
      [] key \in {"PPAGE", "NPAGE"} -> 3
      [] key \in {"w", "s"} -> 4
      [] key \in {"a", "d"} -> 5
      [] key \in {"q", "e"} -> 6
MovePlus(key) == key \in {"RIGHT", "UP", "PPAGE", "w", "a", "q"}

\* The pose a movement key asks for from pose p: one component stepped by
\* the base step of its kind times scale.
Moved(p, key, base_pos, base_rot, scale) ==
    [k \in 1..6 |->
        IF k # MoveAxis(key) THEN p[k]
        ELSE IF MovePlus(key)
             THEN FAdd(p[k], FMul(IF k <= 3 THEN base_pos ELSE base_rot, scale))
             ELSE FSub(p[k], FMul(IF k <= 3 THEN base_pos ELSE base_rot, scale))]

\* C31: in every state of the loop, each movement key asks for the desired
\* pose with exactly one component stepped by the base position or rotation
\* step times last_scale; a pass that reads a movement key (and applies no
\* sync and no auto-tilt) leaves the clamped form of that pose as the desired
\* pose, last_scale being the scale stored by the last pass that had a
\* snapshot: a pass without snapshot keeps it.
C31_MoveKeyStepsOneComponent ==
    /\ [](pc = "loop" =>
            \A key \in MoveKeys :
               /\ KeyPose(key, kb.desired, FMul(kb.base_pos_step, kb.last_scale),
                          FMul(kb.base_rot_step, kb.last_scale))
                     = Moved(kb.desired, key, kb.base_pos_step, kb.base_rot_step,
                             kb.last_scale)
               /\ Moved(kb.desired, key, kb.base_pos_step, kb.base_rot_step,
                        kb.last_scale)[MoveAxis(key)] # kb.desired[MoveAxis(key)])
    /\ [][pc = "loop" /\ obs'.kind \in {"tick", "nostate"}
             /\ obs'.key \in MoveKeys /\ obs'.synctcp = NoPose
             /\ obs'.tilt = <<>> =>
           kb'.desired = clamp_pose(Moved(kb.desired, obs'.key, kb.base_pos_step,
                                          kb.base_rot_step, kb.last_scale))]_vars
    /\ [][pc = "loop" /\ obs'.kind = "nostate" =>
           kb'.last_scale = kb.last_scale]_vars

\* A step key was read on a pass without snapshot while the scale of the
\* last snapshot was below 1, and the desired pose is one scaled step ahead
\* of the pose commanded.
C31_SteppedByScaledStep ==
    /\ obs.kind = "nostate" /\ obs.key = "RIGHT" /\ kb.last_scale < One
    /\ kb.desired[1]
          = FAdd(kb.current_cmd[1], FMul(kb.base_pos_step, kb.last_scale))

\* C32: for tab_x and tab_y in [0, 1], map_tablet_to_robot returns a pose
\* whose x and y are those of center_pose plus (0.5 - tab_x) * 0.2032 and
\* (0.5 - tab_y) * 0.127, to the nearest float: the centre (0.5, 0.5) maps
\* to center_pose, x stays within 0.1016 and y within 0.0635 of it, and z,
\* rx, ry and rz are those of center_pose.
C32_MapsOntoCentredRectangle ==
    pl.pc = "mapped" =>
        /\ 2 * Abs((pl.out[1] - pl.center_pose[1]) * One
                     - (HALF - pl.tab_x) * TABLET_WIDTH_M) <= One
        /\ 2 * Abs((pl.out[2] - pl.center_pose[2]) * One
                     - (HALF - pl.tab_y) * TABLET_HEIGHT_M) <= One
        /\ pl.tab_x = HALF /\ pl.tab_y = HALF => pl.out = pl.center_pose
        /\ Abs(pl.out[1] - pl.center_pose[1]) <= Lit(1016, 10000)
        /\ Abs(pl.out[2] - pl.center_pose[2]) <= Lit(635, 10000)
        /\ \A k \in 3..6 : pl.out[k] = pl.center_pose[k]

\* A corner of the tablet was mapped to a corner of the rectangle.
C32_MappedCorner ==
    /\ pl.pc = "mapped" /\ pl.tab_x = 0 /\ pl.tab_y = One
    /\ pl.out[1] = pl.center_pose[1] + Lit(1016, 10000)
    /\ pl.out[2] = pl.center_pose[2] - Lit(635, 10000)

\* The queue is empty and the pose last commanded is the desired pose.
Converged == kb.segment_queue = <<>> /\ kb.current_cmd = kb.desired

\* C33: if from some pass on every pass of the keyboard loop has a state
\* snapshot and reads no key, no sync being requested, and again and again
\* a pass finds the robot ready with the send interval over, then from some
\* pass on the queue is empty and the pose last commanded is the desired
\* pose.
C33_Converges ==
    (<>[](obs.kind = "tick" /\ obs.key = NoKey /\ ~kb.sync_request)
       /\ []<>obs.due)
        => <>[]Converged

\* The queue a send takes its pose from, and what the send leaves of it.
SentFrom(q, desired) == IF q # <<>> THEN Head(q) ELSE desired
LeftOf(q) == IF q # <<>> THEN Tail(q) ELSE <<>>

\* What a pass with a snapshot leaves, the queue at its send gate being q and
\* the pose last commanded before the gate cmd0: the head of q is sent, if
\* anything, and the rest stays queued in its order.
SendsHead(q, cmd0, sent, after) ==
    IF sent # NoPose
    THEN /\ sent = SentFrom(q, after.desired)
         /\ after.segment_queue = LeftOf(q)
         /\ after.current_cmd = sent
    ELSE /\ after.segment_queue = q
         /\ after.current_cmd = cmd0

\* The queue at the send gate of a pass, planned by the pass (a key that
\* moves the target, or an auto-tilt) from cmd0 or left as it was (emptied
\* by a sync).
GateQueue(before, after, o, cmd0) ==
    IF o.key \in DirtyKeys \/ o.tilt # <<>>
    THEN plan_segments(cmd0, after.desired,
                       PosSeg(after.last_scale), RotSeg(after.last_scale))
    ELSE IF o.synctcp # NoPose THEN <<>> ELSE before.segment_queue

\* The pose last commanded before the send gate of a pass.
GateCmd(before, o) ==
    IF o.synctcp # NoPose THEN clamp_pose(o.synctcp) ELSE before.current_cmd

\* C34: a pass of the keyboard loop sends the head of the queue (the
\* desired pose if the queue is empty) or nothing, and leaves the rest of
\* the queue in the order planned; the pose last commanded is then the pose
\* sent, or without a send the pose of the sync of the pass or the one
\* commanded before; and in every state of the loop it is the pose last
\* written to the link unless a sync was applied since.
C34_QueueSentInOrder ==
    /\ [][pc = "loop" /\ obs'.kind = "tick" =>
             SendsHead(GateQueue(kb, kb', obs', GateCmd(kb, obs')),
                       GateCmd(kb, obs'), obs'.sent, kb')]_vars
    /\ [][pc = "loop" /\ obs'.kind = "nostate" =>
             /\ kb'.segment_queue = kb.segment_queue
             /\ kb'.current_cmd = kb.current_cmd]_vars
    /\ [](pc = "loop" /\ rb.setp # NoPose /\ ~obs.synced =>
             kb.current_cmd = rb.setp)

\* The first waypoint of a plan was sent and a later one is queued.
C34_SentHeadOfPlan ==
    /\ obs.kind = "tick" /\ obs.sent # NoPose /\ obs.sent = obs.head
    /\ kb.segment_queue # <<>> /\ Head(kb.segment_queue) # obs.sent
    /\ kb.current_cmd = obs.sent

\* C35: in every reachable state of the keyboard loop the persisted
\* singularity scale lies in (0, 1], and the step limits a tick hands to
\* plan_segments satisfy 0.002 <= max_pos_step <= 0.005 and
\* 0.02 <= max_rot_step <= 0.03, for every wrist angle of the sweep; so the
\* planner is never called with a zero or negative step limit.
C35_StepLimitsInRange ==
    pl.pc = "scaled" =>
        /\ 0 < pl.out /\ pl.out <= One
        /\ Lit(2, 1000) <= pl.pos_seg /\ pl.pos_seg <= Lit(5, 1000)
        /\ Lit(2, 100) <= pl.rot_seg /\ pl.rot_seg <= Lit(3, 100)
        /\ pl.pos_seg > 0 /\ pl.rot_seg > 0

\* A tick at the singularity limit: the scale is 0.1 and both step limits sit
\* on their floors.
C35_FloorsReached ==
    /\ pl.pc = "scaled" /\ pl.snap.hasq5
    /\ Abs(pl.snap.q5) <= WRIST2_LIMIT
    /\ pl.out = SCALE_LIMIT
    /\ pl.pos_seg = MIN_SEG /\ pl.rot_seg = MIN_ROT_SEG
    /\ FMul(DEF_POS_SEG, pl.out) < MIN_SEG

\* The worker threads of the reader that store the next sample they get: for
\* evdev the live workers while _running is set, for wintab the live workers
\* while _stop is not set.
Updaters ==
    IF kb.backend = "evdev" THEN (IF kb.running THEN kb.alive ELSE 0)
    ELSE (IF kb.stop THEN 0 ELSE kb.alive)

\* The reader was started and no stop() has been called on it since.
Started == IF kb.backend = "evdev" THEN kb.running ELSE kb.cur /\ ~kb.stop

\* The sample state the workers write: _x, _y, _p and their smoothed values
\* for evdev, the packets produced for wintab.
Samples == IF kb.backend = "evdev" THEN <<kb.raw, kb.s>> ELSE kb.latest

\* C36: for any sequence of start() and stop() calls on a tablet reader, at
\* most one worker thread is able to update the shared sample state at a
\* time: a second start() without an intervening stop() creates no second
\* worker, and a worker that was told to stop makes no further update, also
\* after a later start().
C36_AtMostOneUpdater ==
    /\ [](Updaters <= 1)
    /\ [][pc = "tidle" /\ obs'.call = "start" /\ Started /\ kb.alive > 0
             => kb'.alive = kb.alive]_vars
    /\ [][Updaters = 0 => Samples' = Samples]_vars

====
